---------------------------- MODULE Spec2Model ----------------------------
(***************************************************************************)
(* A model of the hierarchical key-value store of GoMiniDistro             *)
(* (src/unnamed/part_001): one process per node, HTTP handlers as atomic   *)
(* actions, the fan-out goroutines as messages in flight, the join         *)
(* (registerWithParent, synchronizeData) as a small sequential process.    *)
(***************************************************************************)
EXTENDS Naturals, Sequences, FiniteSets, Bags, TLC

VARIABLES
    status,      \* per node: "boot" (main before ListenAndServe), "up", "dead"
    data,        \* Node.data: per node, a map (function) from keys to values
    childNodes,  \* Node.childNodes: per node, a sequence of addresses
    parentNode,  \* Node.parentNode: per node, an address or ""
    msgs,        \* the fan-out goroutines that have not finished: a bag
    join,        \* per node: where its registerWithParent/synchronizeData run is
    last,        \* the most recent handler invocation and its response
    nreq,        \* the number of client requests issued so far
    seqOK,       \* history: every mutation so far was issued with no fan-out in flight
    muts,        \* history: the last two mutations a Root applied, newest last
    mu,          \* Node.mu: per node, the writer and the readers holding it
    thr          \* per handler goroutine: the request it serves and its position

vars == <<status, data, childNodes, parentNode, msgs, join, last, nreq, seqOK, muts,
          mu, thr>>

prog == <<status, data, childNodes, parentNode, msgs, join, last, nreq>>
hist == <<seqOK, muts>>
locks == <<mu, thr>>

-----------------------------------------------------------------------------
(* Bounds of the model                                                     *)

\* client requests issued in a run
MaxRequests == 2

-----------------------------------------------------------------------------
(* The nodes and the inputs                                                *)

Roots == {"r1", "r2"}
Children == {"c1", "c2"}
Nodes == Roots \cup Children

\* keys are strings, modelled as sequences of characters so that the
\* unescaped "/delete?key="+key of the delete fan-out can be parsed back:
\* a plain key, and one the receiver reads as no key at all
Keys == { <<"k">>, <<"&">> }
NoKey == << >>
Values == {"v1", "v2"}

Maps == UNION { [S -> Values] : S \in SUBSET Keys }
EmptyMap == [k \in {} |-> "v1"]

\* -parent flag: the role is fixed at construction
isParent(n) == n \in Roots

\* SELF_ADDRESS / GetSelfAddress: main never starts a node without one
selfAddress(n) == n

-----------------------------------------------------------------------------
(* The Store: a Go map[string]string                                       *)

\* n.data[key] = value
Set(d, k, v) == [x \in DOMAIN d \cup {k} |-> IF x = k THEN v ELSE d[x]]

\* delete(n.data, key): no error when the key is absent
Del(d, k) == [x \in DOMAIN d \ {k} |-> d[x]]

-----------------------------------------------------------------------------
(* Requests and responses                                                  *)

\* the JSON body of /put and /replicate as json.Decode and the two lookups see it
KVBodies ==
    [kind : {"ok"}, key : Keys, value : Values]
      \cup {[kind |-> "malformed", key |-> NoKey, value |-> ""],
            [kind |-> "missing", key |-> NoKey, value |-> ""]}

\* the JSON body of /setParent: the address is "" when the field is absent
\* or empty
ParentBodies ==
    [kind : {"ok"}, addr : Nodes \cup {""}]
      \cup {[kind |-> "malformed", addr |-> ""]}

\* the JSON body of /addChild; the addresses registered are those of Child
\* processes, as registerWithParent sends them
ChildBodies ==
    [kind : {"ok"}, addr : Children \cup {""}]
      \cup {[kind |-> "malformed", addr |-> ""]}

Methods == {"DELETE", "GET"}

Resp(d, out, st, loc) == [data |-> d, out |-> out, status |-> st, loc |-> loc]

\* r.URL.Query().Get("key") on the receiver of "...?key=" + key, the key
\* not escaped by the sender: "#" starts the fragment, "&" the next pair,
\* "+" decodes to a space
CutAt(s, stops) ==
    LET idx == {i \in 1..Len(s) : s[i] \in stops}
    IN  IF idx = {} THEN s
        ELSE SubSeq(s, 1, (CHOOSE i \in idx : \A j \in idx : i <= j) - 1)

QueryKey(key) ==
    LET cut == CutAt(CutAt(key, {"#"}), {"&"})
    IN  [i \in 1..Len(cut) |-> IF cut[i] = "+" THEN " " ELSE cut[i]]

\* one goroutine per entry of childNodes, duplicates included
FanOut(n, kind, key, value) ==
    LET M(i) == [kind |-> kind, from |-> n, to |-> childNodes[n][i],
                 key |-> key, value |-> value]
        S == {M(i) : i \in 1..Len(childNodes[n])}
    IN  [m \in S |-> Cardinality({i \in 1..Len(childNodes[n]) : M(i) = m})]

replicateToChildren(n, key, value) == FanOut(n, "set", key, value)

replicateDeletionToChildren(n, key) == FanOut(n, "del", key, "")

-----------------------------------------------------------------------------
(* The handlers, as the result each computes from the node's state         *)

\* mutant: the role check of Put is missing, a Child applies the write itself
PutOnAnyNode(n, body) ==
    IF body.kind # "ok"
    THEN Resp(data[n], EmptyBag, "BadRequest", "")
    ELSE Resp(Set(data[n], body.key, body.value),
              replicateToChildren(n, body.key, body.value), "OK", "")

\* mutant: Put answers OK and fans out without writing the Root's own Store
PutForgetsStore(n, body) ==
    IF ~isParent(n)
    THEN IF parentNode[n] = ""
         THEN Resp(data[n], EmptyBag, "InternalServerError", "")
         ELSE Resp(data[n], EmptyBag, "TemporaryRedirect", parentNode[n])
    ELSE IF body.kind # "ok"
    THEN Resp(data[n], EmptyBag, "BadRequest", "")
    ELSE Resp(data[n], replicateToChildren(n, body.key, body.value), "OK", "")

Put(n, body) ==
    IF ~isParent(n)
    THEN IF parentNode[n] = ""
         THEN Resp(data[n], EmptyBag, "InternalServerError", "")
         ELSE Resp(data[n], EmptyBag, "TemporaryRedirect", parentNode[n])
    ELSE IF body.kind # "ok"
    THEN Resp(data[n], EmptyBag, "BadRequest", "")
    ELSE Resp(Set(data[n], body.key, body.value),
              replicateToChildren(n, body.key, body.value), "OK", "")

\* mutant: a Child with a parent forwards the read instead of serving it
GetForwardsOnChild(n, key) ==
    IF key = NoKey THEN [status |-> "BadRequest", value |-> ""]
    ELSE IF ~isParent(n) /\ parentNode[n] # ""
    THEN [status |-> "TemporaryRedirect", value |-> ""]
    ELSE IF key \in DOMAIN data[n]
    THEN [status |-> "OK", value |-> data[n][key]]
    ELSE [status |-> "NotFound", value |-> ""]

Get(n, key) ==
    IF key = NoKey THEN [status |-> "BadRequest", value |-> ""]
    ELSE IF key \in DOMAIN data[n]
    THEN [status |-> "OK", value |-> data[n][key]]
    ELSE [status |-> "NotFound", value |-> ""]

\* mutant: a Child that applies a marked delete passes it on to its own list
DeleteForwardsOnChild(n, method, key, isReplication) ==
    IF method # "DELETE"
    THEN Resp(data[n], EmptyBag, "MethodNotAllowed", "")
    ELSE IF key = NoKey
    THEN Resp(data[n], EmptyBag, "BadRequest", "")
    ELSE IF ~isParent(n) /\ ~isReplication
    THEN IF parentNode[n] = ""
         THEN Resp(data[n], EmptyBag, "InternalServerError", "")
         ELSE Resp(data[n], EmptyBag, "TemporaryRedirect", parentNode[n])
    ELSE Resp(Del(data[n], key), replicateDeletionToChildren(n, key), "OK", "")

\* mutant: a Child redirects every delete, the marker is not looked at
DeleteIgnoresMarker(n, method, key, isReplication) ==
    IF method # "DELETE"
    THEN Resp(data[n], EmptyBag, "MethodNotAllowed", "")
    ELSE IF key = NoKey
    THEN Resp(data[n], EmptyBag, "BadRequest", "")
    ELSE IF ~isParent(n)
    THEN IF parentNode[n] = ""
         THEN Resp(data[n], EmptyBag, "InternalServerError", "")
         ELSE Resp(data[n], EmptyBag, "TemporaryRedirect", parentNode[n])
    ELSE Resp(Del(data[n], key), replicateDeletionToChildren(n, key), "OK", "")

\* mutant: deleting a key that is absent is answered not-found
DeleteAbsentFails(n, method, key, isReplication) ==
    IF method # "DELETE"
    THEN Resp(data[n], EmptyBag, "MethodNotAllowed", "")
    ELSE IF key = NoKey
    THEN Resp(data[n], EmptyBag, "BadRequest", "")
    ELSE IF ~isParent(n)
    THEN IF ~isReplication
         THEN IF parentNode[n] = ""
              THEN Resp(data[n], EmptyBag, "InternalServerError", "")
              ELSE Resp(data[n], EmptyBag, "TemporaryRedirect", parentNode[n])
         ELSE Resp(Del(data[n], key), EmptyBag, "OK", "")
    ELSE IF key \notin DOMAIN data[n]
    THEN Resp(data[n], EmptyBag, "NotFound", "")
    ELSE Resp(Del(data[n], key), replicateDeletionToChildren(n, key), "OK", "")

Delete(n, method, key, isReplication) ==
    IF method # "DELETE"
    THEN Resp(data[n], EmptyBag, "MethodNotAllowed", "")
    ELSE IF key = NoKey
    THEN Resp(data[n], EmptyBag, "BadRequest", "")
    ELSE IF ~isParent(n)
    THEN IF ~isReplication
         THEN IF parentNode[n] = ""
              THEN Resp(data[n], EmptyBag, "InternalServerError", "")
              ELSE Resp(data[n], EmptyBag, "TemporaryRedirect", parentNode[n])
         ELSE Resp(Del(data[n], key), EmptyBag, "OK", "")
    ELSE Resp(Del(data[n], key), replicateDeletionToChildren(n, key), "OK", "")

\* mutant: the role check of Replicate is missing, a Root applies the write
ReplicateOnAnyNode(n, body) ==
    IF body.kind # "ok"
    THEN Resp(data[n], EmptyBag, "BadRequest", "")
    ELSE Resp(Set(data[n], body.key, body.value), EmptyBag, "OK", "")

Replicate(n, body) ==
    IF isParent(n)
    THEN Resp(data[n], EmptyBag, "BadRequest", "")
    ELSE IF body.kind # "ok"
    THEN Resp(data[n], EmptyBag, "BadRequest", "")
    ELSE Resp(Set(data[n], body.key, body.value), EmptyBag, "OK", "")

\* json.Marshal(n.data) under the read lock: the snapshot served
DisplayData(n) == [status |-> "OK", snapshot |-> data[n]]

\* mutant: an address already in the list is not appended again
AddChildNodeDedups(n, body) ==
    IF ~isParent(n)
    THEN [status |-> "BadRequest", children |-> childNodes[n]]
    ELSE IF body.kind # "ok" \/ body.addr = ""
    THEN [status |-> "BadRequest", children |-> childNodes[n]]
    ELSE IF \E i \in 1..Len(childNodes[n]) : childNodes[n][i] = body.addr
    THEN [status |-> "OK", children |-> childNodes[n]]
    ELSE [status |-> "OK", children |-> Append(childNodes[n], body.addr)]

AddChildNode(n, body) ==
    IF ~isParent(n)
    THEN [status |-> "BadRequest", children |-> childNodes[n]]
    ELSE IF body.kind # "ok" \/ body.addr = ""
    THEN [status |-> "BadRequest", children |-> childNodes[n]]
    ELSE [status |-> "OK", children |-> Append(childNodes[n], body.addr)]

\* the record kept of a handler invocation
Last(op, n, from, key, val, marker, st, loc) ==
    [op |-> op, node |-> n, from |-> from, key |-> key, val |-> val,
     marker |-> marker, status |-> st, loc |-> loc]

-----------------------------------------------------------------------------
(* Initial states                                                          *)

Idle == [pc |-> "idle", snap |-> EmptyMap]

\* the handler goroutines net/http runs at once
Threads == {"t1", "t2"}

\* a goroutine that serves no request
NoThread ==
    [node |-> "", op |-> "none", pc |-> "idle", key |-> NoKey, val |-> "",
     marker |-> FALSE, st |-> "", loc |-> "", snap |-> EmptyMap]

\* the zero value of sync.RWMutex in every Node, and no request being served
NoThreads ==
    /\ mu = [n \in Nodes |-> [w |-> "", r |-> {}]]
    /\ thr = [t \in Threads |-> NoThread]
NoLast == Last("none", "", "", NoKey, "", FALSE, "", "")

\* PARENT_NODE as the environment gives it: c1 is started as a child of r1,
\* c2 with no parent at all; NewNode stores the value on a Root too, and r2
\* is started with one
InitParent(n) == IF n \in {"c1", "r2"} THEN "r1" ELSE ""

\* -childNodes as the command line gives it: NewNode stores the list whatever
\* the role is, and c1 is started with one
InitChildNodes(n) == IF n = "c1" THEN <<"c2">> ELSE << >>

\* every process just constructed by NewNode: the Roots go straight to
\* ListenAndServe, the Children still have main's join before them
Init ==
    /\ status = [n \in Nodes |-> IF isParent(n) THEN "up" ELSE "boot"]
    /\ data = [n \in Nodes |-> EmptyMap]
    /\ childNodes = [n \in Nodes |-> InitChildNodes(n)]
    /\ parentNode = [n \in Nodes |-> InitParent(n)]
    /\ msgs = EmptyBag
    /\ join = [n \in Nodes |-> IF isParent(n) THEN Idle
                                ELSE [pc |-> "start", snap |-> EmptyMap]]
    /\ last = NoLast
    /\ nreq = 0
    /\ seqOK = TRUE
    /\ muts = << >>
    /\ NoThreads

\* the tree of the sequential scenario, after c1 and c2 have joined r1;
\* r2 is not running
InitTree ==
    /\ status = [n \in Nodes |-> IF n = "r2" THEN "dead" ELSE "up"]
    /\ data = [n \in Nodes |-> EmptyMap]
    /\ childNodes = [n \in Nodes |-> IF n = "r1" THEN <<"c1", "c2">> ELSE << >>]
    /\ parentNode = [n \in Nodes |-> IF isParent(n) THEN "" ELSE "r1"]
    /\ msgs = EmptyBag
    /\ join = [n \in Nodes |-> Idle]
    /\ last = NoLast
    /\ nreq = 0
    /\ seqOK = TRUE
    /\ muts = << >>
    /\ NoThreads

-----------------------------------------------------------------------------
(* Client requests                                                         *)

Up(n) == n \in Nodes /\ status[n] = "up"

\* a client issues one more request
Request == nreq < MaxRequests /\ nreq' = nreq + 1

ClientPut(n, body) ==
    /\ Up(n) /\ Request
    /\ LET r == Put(n, body) IN
        /\ data' = [data EXCEPT ![n] = r.data]
        /\ msgs' = msgs (+) r.out
        /\ last' = Last("put", n, "client", body.key, body.value, FALSE,
                        r.status, r.loc)
    /\ UNCHANGED <<status, childNodes, parentNode, join>>

ClientGet(n, key) ==
    /\ Up(n) /\ Request
    /\ LET r == Get(n, key) IN
        last' = Last("get", n, "client", key, r.value, FALSE, r.status, "")
    /\ UNCHANGED <<status, data, childNodes, parentNode, msgs, join>>

ClientDelete(n, method, key, marker) ==
    /\ Up(n) /\ Request
    /\ LET r == Delete(n, method, key, marker) IN
        /\ data' = [data EXCEPT ![n] = r.data]
        /\ msgs' = msgs (+) r.out
        /\ last' = Last("delete", n, "client", key, method, marker,
                        r.status, r.loc)
    /\ UNCHANGED <<status, childNodes, parentNode, join>>

\* a /replicate request from any peer that is not a fan-out goroutine
ClientReplicate(n, body) ==
    /\ Up(n) /\ Request
    /\ LET r == Replicate(n, body) IN
        /\ data' = [data EXCEPT ![n] = r.data]
        /\ last' = Last("replicate", n, "client", body.key, body.value, FALSE,
                        r.status, "")
    /\ UNCHANGED <<status, childNodes, parentNode, msgs, join>>

ClientAddChild(n, body) ==
    /\ Up(n) /\ Request
    /\ LET r == AddChildNode(n, body) IN
        /\ childNodes' = [childNodes EXCEPT ![n] = r.children]
        /\ last' = Last("addChild", n, "client", NoKey, body.addr, FALSE,
                        r.status, "")
    /\ UNCHANGED <<status, data, parentNode, msgs, join>>

-----------------------------------------------------------------------------
(* The fan-out goroutines                                                  *)

Take(m) == msgs (-) SetToBag({m})

\* the process of n ends: its memory and its goroutines go with it
Crash(n) ==
    /\ status' = [status EXCEPT ![n] = "dead"]
    /\ data' = [data EXCEPT ![n] = EmptyMap]
    /\ childNodes' = [childNodes EXCEPT ![n] = << >>]
    /\ parentNode' = [parentNode EXCEPT ![n] = ""]
    /\ join' = [join EXCEPT ![n] = Idle]
    /\ msgs' = LET keep == {m \in BagToSet(msgs) : m.from # n}
               IN  [m \in keep |-> msgs[m]]

\* mutant: the Child applies a replicated set only when its parent sent it
replicateSentFromParentOnly(m) ==
    /\ UNCHANGED nreq
    /\ BagIn(m, msgs) /\ m.kind = "set"
    /\ Up(m.to)
    /\ LET r == IF m.from = parentNode[m.to]
                THEN Replicate(m.to, [kind |-> "ok", key |-> m.key, value |-> m.value])
                ELSE Resp(data[m.to], EmptyBag, "BadRequest", "") IN
        /\ data' = [data EXCEPT ![m.to] = r.data]
        /\ last' = Last("replicate", m.to, m.from, m.key, m.value, FALSE,
                        r.status, "")
    /\ msgs' = Take(m)
    /\ UNCHANGED <<status, childNodes, parentNode, join>>

\* http.Post to /replicate returned a response, whatever its status
replicateSent(m) ==
    /\ UNCHANGED nreq
    /\ BagIn(m, msgs) /\ m.kind = "set"
    /\ Up(m.to)
    /\ LET r == Replicate(m.to, [kind |-> "ok", key |-> m.key, value |-> m.value]) IN
        /\ data' = [data EXCEPT ![m.to] = r.data]
        /\ last' = Last("replicate", m.to, m.from, m.key, m.value, FALSE,
                        r.status, "")
    /\ msgs' = Take(m)
    /\ UNCHANGED <<status, childNodes, parentNode, join>>

\* http.Post returned an error: resp is nil and resp.Body.Close() panics
\* in a goroutine nothing recovers, which ends the sender's process
replicateFailed(m) ==
    /\ UNCHANGED nreq
    /\ BagIn(m, msgs) /\ m.kind = "set"
    /\ Crash(m.from)
    /\ UNCHANGED last

\* the DELETE with X-Replication returned a response, whatever its status
deletionSent(m) ==
    /\ UNCHANGED nreq
    /\ BagIn(m, msgs) /\ m.kind = "del"
    /\ Up(m.to)
    /\ LET r == Delete(m.to, "DELETE", QueryKey(m.key), TRUE) IN
        /\ data' = [data EXCEPT ![m.to] = r.data]
        /\ msgs' = Take(m) (+) r.out
        /\ last' = Last("delete", m.to, m.from, QueryKey(m.key), "DELETE", TRUE,
                        r.status, r.loc)
    /\ UNCHANGED <<status, childNodes, parentNode, join>>

\* mutant: the delete goroutine closes the nil response as the set one does
deletionFailedPanics(m) ==
    /\ UNCHANGED nreq
    /\ BagIn(m, msgs) /\ m.kind = "del"
    /\ Crash(m.from)
    /\ UNCHANGED last

\* http.NewRequest or http.DefaultClient.Do returned an error: logged
deletionFailed(m) ==
    /\ UNCHANGED nreq
    /\ BagIn(m, msgs) /\ m.kind = "del"
    /\ msgs' = Take(m)
    /\ UNCHANGED <<status, data, childNodes, parentNode, join, last>>

-----------------------------------------------------------------------------
(* The join: SetParentNode, or main of a Child, then registerWithParent    *)
(* and synchronizeData.  One join runs per node at a time.                 *)

SetPc(n, pc) == [join EXCEPT ![n].pc = pc]

\* main, lines 409-412
mainStart(n) ==
    /\ UNCHANGED nreq
    /\ status[n] = "boot" /\ join[n].pc = "start"
    /\ IF parentNode[n] = ""
       THEN Crash(n)
       ELSE /\ join' = SetPc(n, "register")
            /\ UNCHANGED <<status, data, childNodes, parentNode, msgs>>
    /\ UNCHANGED last

\* SetParentNode up to the call of registerWithParent
SetParentNode(n, body) ==
    /\ Up(n) /\ join[n].pc = "idle" /\ Request
    /\ IF isParent(n) \/ body.kind # "ok" \/ body.addr = ""
       THEN /\ last' = Last("setParent", n, "client", NoKey, body.addr, FALSE,
                            "BadRequest", "")
            /\ UNCHANGED <<parentNode, join>>
       ELSE /\ parentNode' = [parentNode EXCEPT ![n] = body.addr]
            /\ join' = SetPc(n, "register")
            /\ UNCHANGED last
    /\ UNCHANGED <<status, data, childNodes, msgs>>

\* mutant: registering with a parent takes the address off every other list
registerWithParentMoves(n) ==
    /\ UNCHANGED nreq
    /\ join[n].pc = "register" /\ selfAddress(n) # ""
    /\ Up(parentNode[n])
    /\ LET p == parentNode[n]
           r == AddChildNode(p, [kind |-> "ok", addr |-> selfAddress(n)]) IN
        /\ childNodes' = [o \in Nodes |->
                            IF o = p THEN r.children
                            ELSE SelectSeq(childNodes[o],
                                           LAMBDA a : a # selfAddress(n))]
        /\ last' = Last("addChild", p, n, NoKey, selfAddress(n), FALSE,
                        r.status, "")
        /\ join' = SetPc(n, IF r.status = "OK" THEN "sync" ELSE "fail")
    /\ UNCHANGED <<status, data, parentNode, msgs>>

\* registerWithParent: the POST to /addChild got a response
registerWithParent(n) ==
    /\ UNCHANGED nreq
    /\ join[n].pc = "register" /\ selfAddress(n) # ""
    /\ Up(parentNode[n])
    /\ LET p == parentNode[n]
           r == AddChildNode(p, [kind |-> "ok", addr |-> selfAddress(n)]) IN
        /\ childNodes' = [childNodes EXCEPT ![p] = r.children]
        /\ last' = Last("addChild", p, n, NoKey, selfAddress(n), FALSE,
                        r.status, "")
        /\ join' = SetPc(n, IF r.status = "OK" THEN "sync" ELSE "fail")
    /\ UNCHANGED <<status, data, parentNode, msgs>>

\* mutant: the error of registerWithParent is dropped and the join goes on
registerFailedIgnored(n) ==
    /\ UNCHANGED nreq
    /\ join[n].pc = "register"
    /\ join' = SetPc(n, "sync")
    /\ UNCHANGED <<status, data, childNodes, parentNode, msgs, last>>

\* registerWithParent: no self address, or http.Post returned an error
registerFailed(n) ==
    /\ UNCHANGED nreq
    /\ join[n].pc = "register"
    /\ join' = SetPc(n, "fail")
    /\ UNCHANGED <<status, data, childNodes, parentNode, msgs, last>>

\* synchronizeData: the GET of /display got its response and decoded it
synchronizeFetch(n) ==
    /\ UNCHANGED nreq
    /\ join[n].pc = "sync"
    /\ Up(parentNode[n])
    /\ LET p == parentNode[n]
           r == DisplayData(p) IN
        /\ join' = [join EXCEPT ![n] = [pc |-> "apply", snap |-> r.snapshot]]
        /\ last' = Last("display", p, n, NoKey, "", FALSE, r.status, "")
    /\ UNCHANGED <<status, data, childNodes, parentNode, msgs>>

\* mutant: the Store is replaced before the fetch is known to have succeeded
synchronizeFailedClearsStore(n) ==
    /\ UNCHANGED nreq
    /\ join[n].pc = "sync"
    /\ join' = SetPc(n, "fail")
    /\ data' = [data EXCEPT ![n] = EmptyMap]
    /\ UNCHANGED <<status, childNodes, parentNode, msgs, last>>

\* synchronizeData: http.Get returned an error, or a status other than OK, or
\* a body that does not decode: each returns before n.data is assigned
synchronizeFailed(n) ==
    /\ UNCHANGED nreq
    /\ join[n].pc = "sync"
    /\ join' = SetPc(n, "fail")
    /\ UNCHANGED <<status, data, childNodes, parentNode, msgs, last>>

\* mutant: the snapshot is merged into the Store instead of replacing it
synchronizeDataMerges(n) ==
    /\ UNCHANGED nreq
    /\ join[n].pc = "apply"
    /\ data' = [data EXCEPT ![n] =
                  [k \in DOMAIN data[n] \cup DOMAIN join[n].snap |->
                     IF k \in DOMAIN join[n].snap THEN join[n].snap[k]
                     ELSE data[n][k]]]
    /\ join' = [join EXCEPT ![n] = Idle]
    /\ IF status[n] = "boot"
       THEN status' = [status EXCEPT ![n] = "up"] /\ UNCHANGED last
       ELSE /\ last' = Last("setParent", n, "client", NoKey, parentNode[n], FALSE,
                            "OK", "")
            /\ UNCHANGED status
    /\ UNCHANGED <<childNodes, parentNode, msgs>>

\* synchronizeData: n.data = data, then the caller's success path
synchronizeData(n) ==
    /\ UNCHANGED nreq
    /\ join[n].pc = "apply"
    /\ data' = [data EXCEPT ![n] = join[n].snap]
    /\ join' = [join EXCEPT ![n] = Idle]
    /\ IF status[n] = "boot"
       THEN status' = [status EXCEPT ![n] = "up"] /\ UNCHANGED last
       ELSE /\ last' = Last("setParent", n, "client", NoKey, parentNode[n], FALSE,
                            "OK", "")
            /\ UNCHANGED status
    /\ UNCHANGED <<childNodes, parentNode, msgs>>

\* mutant: a setParent that fails puts the configured parent back
joinFailedRestoresParent(n) ==
    /\ UNCHANGED nreq
    /\ join[n].pc = "fail"
    /\ IF status[n] = "boot"
       THEN Crash(n) /\ UNCHANGED last
       ELSE /\ join' = [join EXCEPT ![n] = Idle]
            /\ parentNode' = [parentNode EXCEPT ![n] = InitParent(n)]
            /\ last' = Last("setParent", n, "client", NoKey, parentNode[n], FALSE,
                            "InternalServerError", "")
            /\ UNCHANGED <<status, data, childNodes, msgs>>

\* the caller's error path: log.Fatalf in main, a 500 in SetParentNode
joinFailed(n) ==
    /\ UNCHANGED nreq
    /\ join[n].pc = "fail"
    /\ IF status[n] = "boot"
       THEN Crash(n) /\ UNCHANGED last
       ELSE /\ join' = [join EXCEPT ![n] = Idle]
            /\ last' = Last("setParent", n, "client", NoKey, parentNode[n], FALSE,
                            "InternalServerError", "")
            /\ UNCHANGED <<status, data, childNodes, parentNode, msgs>>

-----------------------------------------------------------------------------
(* Specifications                                                          *)

Msgs == BagToSet(msgs)

Next ==
    \/ \E n \in Nodes, b \in KVBodies : ClientPut(n, b) /\ UNCHANGED <<hist, locks>>
    \/ \E n \in Nodes, k \in Keys \cup {NoKey} : ClientGet(n, k) /\ UNCHANGED <<hist, locks>>
    \/ \E n \in Nodes, me \in Methods, k \in Keys \cup {NoKey}, mk \in BOOLEAN :
          ClientDelete(n, me, k, mk) /\ UNCHANGED <<hist, locks>>
    \/ \E n \in Nodes, b \in KVBodies : ClientReplicate(n, b) /\ UNCHANGED <<hist, locks>>
    \/ \E n \in Nodes, b \in ChildBodies : ClientAddChild(n, b) /\ UNCHANGED <<hist, locks>>
    \/ \E n \in Nodes, b \in ParentBodies : SetParentNode(n, b) /\ UNCHANGED <<hist, locks>>
    \/ \E m \in Msgs : replicateSent(m) /\ UNCHANGED <<hist, locks>>
    \/ \E m \in Msgs : replicateFailed(m) /\ UNCHANGED <<hist, locks>>
    \/ \E m \in Msgs : deletionSent(m) /\ UNCHANGED <<hist, locks>>
    \/ \E m \in Msgs : deletionFailed(m) /\ UNCHANGED <<hist, locks>>
    \/ \E n \in Nodes : mainStart(n) /\ UNCHANGED <<hist, locks>>
    \/ \E n \in Nodes : registerWithParent(n) /\ UNCHANGED <<hist, locks>>
    \/ \E n \in Nodes : registerFailed(n) /\ UNCHANGED <<hist, locks>>
    \/ \E n \in Nodes : synchronizeFetch(n) /\ UNCHANGED <<hist, locks>>
    \/ \E n \in Nodes : synchronizeFailed(n) /\ UNCHANGED <<hist, locks>>
    \/ \E n \in Nodes : synchronizeData(n) /\ UNCHANGED <<hist, locks>>
    \/ \E n \in Nodes : joinFailed(n) /\ UNCHANGED <<hist, locks>>

Spec == Init /\ [][Next]_vars

\* the history of mutations, kept for the tree of the sequential scenario
LastTwo(q) == IF Len(q) > 2 THEN Tail(q) ELSE q

NoteMutation(n, op, key, value, st) ==
    IF isParent(n) /\ st = "OK"
    THEN /\ seqOK' = (seqOK /\ msgs = EmptyBag)
         /\ muts' = LastTwo(Append(muts, [op |-> op, key |-> key, value |-> value]))
    ELSE UNCHANGED hist

\* a Root with two joined Children, a network that delivers every send, and
\* clients that leave the replication endpoints and the marker to the Root
NextReliable ==
    \/ \E n \in Nodes, b \in KVBodies :
          /\ ClientPut(n, b) /\ UNCHANGED locks
          /\ NoteMutation(n, "put", b.key, b.value, Put(n, b).status)
    \/ \E n \in Nodes, k \in Keys \cup {NoKey} : ClientGet(n, k) /\ UNCHANGED <<hist, locks>>
    \/ \E n \in Nodes, me \in Methods, k \in Keys \cup {NoKey} :
          /\ ClientDelete(n, me, k, FALSE) /\ UNCHANGED locks
          /\ NoteMutation(n, "delete", k, "", Delete(n, me, k, FALSE).status)
    \/ \E m \in Msgs : replicateSent(m) /\ UNCHANGED <<hist, locks>>
    \/ \E m \in Msgs : deletionSent(m) /\ UNCHANGED <<hist, locks>>

SpecReliable == InitTree /\ [][NextReliable]_vars

-----------------------------------------------------------------------------
(* The handlers statement by statement, with Node.mu.  Each goroutine of   *)
(* Threads serves one request at a time; a position names the statement    *)
(* it executes next.                                                       *)

\* r1 with the child c1 joined, both serving; r2 and c2 are not running
InitLocks ==
    /\ status = [n \in Nodes |-> IF n \in {"r1", "c1"} THEN "up" ELSE "dead"]
    /\ data = [n \in Nodes |-> EmptyMap]
    /\ childNodes = [n \in Nodes |-> IF n = "r1" THEN <<"c1">> ELSE << >>]
    /\ parentNode = [n \in Nodes |-> IF n = "c1" THEN "r1" ELSE ""]
    /\ msgs = EmptyBag
    /\ join = [n \in Nodes |-> Idle]
    /\ last = NoLast
    /\ nreq = 0
    /\ seqOK = TRUE
    /\ muts = << >>
    /\ NoThreads

\* the first statement of a handler that touches shared state, after the
\* role check it makes on the way (isParent is never written)
Entry(n, op, marker) ==
    CASE op = "put" -> IF isParent(n) THEN "lock" ELSE "redirect"
      [] op = "get" -> "rlock"
      [] op = "delete" -> IF isParent(n) \/ marker THEN "lock" ELSE "redirect"
      [] op = "replicate" -> IF isParent(n) THEN "respond" ELSE "lock"
      [] op = "display" -> "rlock"
      [] op = "setParent" -> IF isParent(n) THEN "respond" ELSE "lock"
      [] op = "addChild" -> IF isParent(n) THEN "lock" ELSE "respond"

At(t, pc) == thr[t].pc = pc
Goto(t, pc) == [thr EXCEPT ![t].pc = pc]
Answer(t, st, loc) == [thr EXCEPT ![t].pc = "respond", ![t].st = st, ![t].loc = loc]

\* net/http hands a request to a goroutine, which runs up to the first
\* statement that touches shared state
Serve(t, n, op, key, val, marker) ==
    /\ At(t, "idle") /\ Up(n) /\ Request
    /\ thr' = [thr EXCEPT ![t] =
                 [node |-> n, op |-> op, pc |-> Entry(n, op, marker), key |-> key,
                  val |-> val, marker |-> marker,
                  st |-> IF Entry(n, op, marker) = "respond" THEN "BadRequest" ELSE "",
                  loc |-> "", snap |-> EmptyMap]]
    /\ UNCHANGED <<status, data, childNodes, parentNode, msgs, join, last, mu>>

\* n.mu.Lock(): waits for the writer and every reader to be gone
muLock(t) ==
    /\ (At(t, "lock") \/ At(t, "lock2"))
    /\ mu[thr[t].node] = [w |-> "", r |-> {}]
    /\ mu' = [mu EXCEPT ![thr[t].node].w = t]
    /\ thr' = Goto(t, IF At(t, "lock") THEN "write" ELSE "replace")
    /\ UNCHANGED <<status, data, childNodes, parentNode, msgs, join, last, nreq>>

\* the statement between Lock and Unlock: lines 63, 122, 133, 204, 251, 341
muWrite(t) ==
    /\ At(t, "write")
    /\ LET n == thr[t].node
           op == thr[t].op IN
        /\ data' = IF op \in {"put", "replicate"}
                   THEN [data EXCEPT ![n] = Set(data[n], thr[t].key, thr[t].val)]
                   ELSE IF op = "delete"
                   THEN [data EXCEPT ![n] = Del(data[n], thr[t].key)]
                   ELSE data
        /\ parentNode' = IF op = "setParent"
                         THEN [parentNode EXCEPT ![n] = thr[t].val]
                         ELSE parentNode
        /\ childNodes' = IF op = "addChild"
                         THEN [childNodes EXCEPT ![n] = Append(childNodes[n], thr[t].val)]
                         ELSE childNodes
    /\ thr' = Goto(t, "unlock")
    /\ UNCHANGED <<status, msgs, join, last, nreq, mu>>

\* n.data = data, line 314
muReplace(t) ==
    /\ At(t, "replace")
    /\ data' = [data EXCEPT ![thr[t].node] = thr[t].snap]
    /\ thr' = Goto(t, "unlock2")
    /\ UNCHANGED <<status, childNodes, parentNode, msgs, join, last, nreq, mu>>

\* n.mu.Unlock(), and the statement the handler goes on with
muUnlock(t) ==
    /\ (At(t, "unlock") \/ At(t, "unlock2"))
    /\ mu' = [mu EXCEPT ![thr[t].node].w = ""]
    /\ thr' = IF At(t, "unlock") /\ isParent(thr[t].node)
                   /\ thr[t].op \in {"put", "delete"}
              THEN Goto(t, "fanout")
              ELSE IF At(t, "unlock") /\ thr[t].op = "setParent"
              THEN Goto(t, "register")
              ELSE Answer(t, "OK", "")
    /\ UNCHANGED <<status, data, childNodes, parentNode, msgs, join, last, nreq>>


\* n.mu.RLock(): waits for the writer to be gone
muRLock(t) ==
    /\ At(t, "rlock")
    /\ mu[thr[t].node].w = ""
    /\ mu' = [mu EXCEPT ![thr[t].node].r = @ \cup {t}]
    /\ thr' = Goto(t, "read")
    /\ UNCHANGED <<status, data, childNodes, parentNode, msgs, join, last, nreq>>

\* the statement after RLock: n.data[key] in Get, json.Marshal(n.data) in
\* DisplayData
muRead(t) ==
    /\ At(t, "read")
    /\ LET n == thr[t].node IN
        thr' = IF thr[t].op = "get"
               THEN [thr EXCEPT ![t].pc = "runlock",
                                ![t].st = Get(n, thr[t].key).status,
                                ![t].val = Get(n, thr[t].key).value]
               ELSE [thr EXCEPT ![t].pc = "send", ![t].st = DisplayData(n).status,
                                ![t].snap = DisplayData(n).snapshot]
    /\ UNCHANGED <<status, data, childNodes, parentNode, msgs, join, last, nreq, mu>>

\* DisplayData, lines 224-225: the response is written to the peer before
\* the deferred RUnlock runs
displaySend(t) ==
    /\ At(t, "send")
    /\ last' = Last("display", thr[t].node, "client", NoKey, "", FALSE, thr[t].st, "")
    /\ thr' = Goto(t, "runlock")
    /\ UNCHANGED <<status, data, childNodes, parentNode, msgs, join, nreq, mu>>

\* n.mu.RUnlock(): line 83 in Get, the deferred one of line 214 in DisplayData
muRUnlock(t) ==
    /\ At(t, "runlock")
    /\ mu' = [mu EXCEPT ![thr[t].node].r = @ \ {t}]
    /\ thr' = IF thr[t].op = "get" THEN Goto(t, "respond")
              ELSE [thr EXCEPT ![t] = NoThread]
    /\ UNCHANGED <<status, data, childNodes, parentNode, msgs, join, last, nreq>>

\* replicateToChildren / replicateDeletionToChildren: ranges over
\* n.childNodes and starts the goroutines
startFanOut(t) ==
    /\ At(t, "fanout")
    /\ msgs' = msgs (+) (IF thr[t].op = "put"
                         THEN replicateToChildren(thr[t].node, thr[t].key, thr[t].val)
                         ELSE replicateDeletionToChildren(thr[t].node, thr[t].key))
    /\ thr' = Answer(t, "OK", "")
    /\ UNCHANGED <<status, data, childNodes, parentNode, join, last, nreq, mu>>

\* Put lines 39-44, Delete lines 113-118: reads n.parentNode
redirect(t) ==
    /\ At(t, "redirect")
    /\ thr' = IF parentNode[thr[t].node] = ""
              THEN Answer(t, "InternalServerError", "")
              ELSE Answer(t, "TemporaryRedirect", parentNode[thr[t].node])
    /\ UNCHANGED <<status, data, childNodes, parentNode, msgs, join, last, nreq, mu>>

\* registerWithParent called by SetParentNode: reads n.parentNode, posts to
\* /addChild there and waits for the answer
threadRegister(t) ==
    /\ At(t, "register")
    /\ LET n == thr[t].node
           p == parentNode[n] IN
        IF Up(p)
        THEN /\ mu[p] = [w |-> "", r |-> {}]
             /\ LET r == AddChildNode(p, [kind |-> "ok", addr |-> selfAddress(n)]) IN
                 /\ childNodes' = [childNodes EXCEPT ![p] = r.children]
                 /\ thr' = IF r.status = "OK" THEN Goto(t, "fetch")
                           ELSE Answer(t, "InternalServerError", "")
        ELSE /\ thr' = Answer(t, "InternalServerError", "")
             /\ UNCHANGED childNodes
    /\ UNCHANGED <<status, data, parentNode, msgs, join, last, nreq, mu>>

\* synchronizeData up to line 311: reads n.parentNode, gets /display there
threadFetch(t) ==
    /\ At(t, "fetch")
    /\ LET n == thr[t].node
           p == parentNode[n] IN
        IF Up(p)
        THEN /\ mu[p].w = ""
             /\ thr' = [thr EXCEPT ![t].pc = "lock2",
                                   ![t].snap = DisplayData(p).snapshot]
        ELSE thr' = Answer(t, "InternalServerError", "")
    /\ UNCHANGED <<status, data, childNodes, parentNode, msgs, join, last, nreq, mu>>

\* the handler writes its response and returns
respond(t) ==
    /\ At(t, "respond")
    /\ last' = Last(thr[t].op, thr[t].node, "client", thr[t].key, thr[t].val,
                    thr[t].marker, thr[t].st, thr[t].loc)
    /\ thr' = [thr EXCEPT ![t] = NoThread]
    /\ UNCHANGED <<status, data, childNodes, parentNode, msgs, join, nreq, mu>>

\* the field of Node the goroutine writes next, the field it reads next
Writes(t) ==
    IF At(t, "replace") THEN "data"
    ELSE IF ~At(t, "write") THEN "none"
    ELSE IF thr[t].op = "setParent" THEN "parentNode"
    ELSE IF thr[t].op = "addChild" THEN "childNodes"
    ELSE "data"

Reads(t) ==
    IF At(t, "fanout") THEN "childNodes"
    ELSE IF At(t, "redirect") \/ At(t, "register") \/ At(t, "fetch") THEN "parentNode"
    ELSE IF At(t, "read") THEN "data"
    ELSE "none"

\* two goroutines of one process about to access the same field, one of
\* them writing, with nothing that orders them
Race(t, u) ==
    /\ t # u /\ thr[t].node = thr[u].node
    /\ Writes(t) # "none"
    /\ Reads(u) = Writes(t) \/ Writes(u) = Writes(t)

\* a read that races with the write of a slice or string header may see a
\* header that is neither the old nor the new one; what follows is not
\* defined, and here it ends the process
tornRead(u) ==
    /\ \E t \in Threads : Race(t, u) /\ Reads(u) # "none"
    /\ Crash(thr[u].node)
    /\ thr' = [t \in Threads |-> IF thr[t].node = thr[u].node THEN NoThread ELSE thr[t]]
    /\ mu' = [mu EXCEPT ![thr[u].node] = [w |-> "", r |-> {}]]
    /\ UNCHANGED <<last, nreq>>

\* a fan-out goroutine's request is served by its receiver
delivered(m) ==
    /\ mu[m.to] = [w |-> "", r |-> {}]
    /\ replicateSent(m) \/ deletionSent(m)
    /\ UNCHANGED locks

\* the requests the goroutines serve: well-formed ones
Requests ==
    [op : {"put", "replicate"}, key : Keys, val : Values, marker : {FALSE}]
      \cup [op : {"get"}, key : Keys, val : {""}, marker : {FALSE}]
      \cup [op : {"delete"}, key : Keys, val : {""}, marker : BOOLEAN]
      \cup [op : {"display"}, key : {NoKey}, val : {""}, marker : {FALSE}]
      \cup [op : {"setParent"}, key : {NoKey}, val : Roots, marker : {FALSE}]
      \cup [op : {"addChild"}, key : {NoKey}, val : Children, marker : {FALSE}]

NextLocks ==
    \/ \E t \in Threads, n \in Nodes, q \in Requests :
          Serve(t, n, q.op, q.key, q.val, q.marker) /\ UNCHANGED hist
    \/ \E t \in Threads : muLock(t) /\ UNCHANGED hist
    \/ \E t \in Threads : muWrite(t) /\ UNCHANGED hist
    \/ \E t \in Threads : muReplace(t) /\ UNCHANGED hist
    \/ \E t \in Threads : muUnlock(t) /\ UNCHANGED hist
    \/ \E t \in Threads : muRLock(t) /\ UNCHANGED hist
    \/ \E t \in Threads : muRead(t) /\ UNCHANGED hist
    \/ \E t \in Threads : displaySend(t) /\ UNCHANGED hist
    \/ \E t \in Threads : muRUnlock(t) /\ UNCHANGED hist
    \/ \E t \in Threads : startFanOut(t) /\ UNCHANGED hist
    \/ \E t \in Threads : redirect(t) /\ UNCHANGED hist
    \/ \E t \in Threads : threadRegister(t) /\ UNCHANGED hist
    \/ \E t \in Threads : threadFetch(t) /\ UNCHANGED hist
    \/ \E t \in Threads : respond(t) /\ UNCHANGED hist
    \/ \E t \in Threads : tornRead(t) /\ UNCHANGED hist
    \/ \E m \in Msgs : delivered(m) /\ UNCHANGED hist

SpecLocks == InitLocks /\ [][NextLocks]_vars

-----------------------------------------------------------------------------
(* A join while the new parent takes writes, over a network that delivers  *)

\* c1 serves with its first parent r1 gone; r2 serves and takes the writes
InitJoin ==
    /\ status = [n \in Nodes |-> IF n \in {"r2", "c1"} THEN "up" ELSE "dead"]
    /\ data = [n \in Nodes |-> EmptyMap]
    /\ childNodes = [n \in Nodes |-> << >>]
    /\ parentNode = [n \in Nodes |-> IF n = "c1" THEN "r1" ELSE ""]
    /\ msgs = EmptyBag
    /\ join = [n \in Nodes |-> Idle]
    /\ last = NoLast
    /\ nreq = 0
    /\ seqOK = TRUE
    /\ muts = << >>
    /\ NoThreads

\* puts and deletes by clients, setParent to a Root that runs, every step of
\* the join and every fan-out send succeeding
NextJoin ==
    \/ \E n \in Nodes, b \in KVBodies : ClientPut(n, b) /\ UNCHANGED <<hist, locks>>
    \/ \E n \in Nodes, k \in Keys :
          ClientDelete(n, "DELETE", k, FALSE) /\ UNCHANGED <<hist, locks>>
    \/ \E n \in Nodes, p \in Roots :
          /\ Up(p) /\ SetParentNode(n, [kind |-> "ok", addr |-> p])
          /\ UNCHANGED <<hist, locks>>
    \/ \E n \in Nodes : registerWithParent(n) /\ UNCHANGED <<hist, locks>>
    \/ \E n \in Nodes : synchronizeFetch(n) /\ UNCHANGED <<hist, locks>>
    \/ \E n \in Nodes : synchronizeData(n) /\ UNCHANGED <<hist, locks>>
    \/ \E m \in Msgs : replicateSent(m) /\ UNCHANGED <<hist, locks>>
    \/ \E m \in Msgs : deletionSent(m) /\ UNCHANGED <<hist, locks>>

SpecJoin == InitJoin /\ [][NextJoin]_vars

-----------------------------------------------------------------------------
(* Claims                                                                  *)

\* the entries of a Root's childNodes that run as Children
ChildrenOf(r) == {childNodes[r][i] : i \in 1..Len(childNodes[r])}

Quiet == msgs = EmptyBag

\* C1 (as claimed): over a network that delivers every fan-out send, in any
\* order, once no fan-out is in flight every child's Store equals the Store
\* of its Root, key by key.
C1_Convergence ==
    Quiet =>
      \A r \in Roots : \A c \in ChildrenOf(r) :
        (Up(r) /\ Up(c)) => \A k \in Keys : Get(c, k) = Get(r, k)

\* C7 (as claimed): in the tree r1 -> [c1, c2], when every mutation is issued
\* only after the fan-out of the one before has been delivered, then after
\* put(k, v) has settled r1, c1 and c2 all return v for k, and after a delete(k)
\* that follows it has settled they all return not-found.
C7_Scenario ==
    (seqOK /\ Quiet /\ muts # << >>) =>
      LET m == muts[Len(muts)] IN
        /\ m.op = "put" =>
             \A n \in {"r1", "c1", "c2"} :
               Get(n, m.key) = [status |-> "OK", value |-> m.value]
        /\ (m.op = "delete" /\ Len(muts) = 2 /\ muts[1].op = "put"
              /\ muts[1].key = m.key) =>
             \A n \in {"r1", "c1", "c2"} : Get(n, m.key).status = "NotFound"

\* the outcome of a write that a Child turns away: nothing stored, nothing
\* sent, a redirect to parentNode or the failure for an empty parentNode
TurnedAway(n) ==
    /\ data' = data /\ msgs' = msgs /\ childNodes' = childNodes
    /\ IF parentNode[n] = ""
       THEN last'.status = "InternalServerError" /\ last'.loc = ""
       ELSE last'.status = "TemporaryRedirect" /\ last'.loc = parentNode[n]

\* C2: a put (any body) or a client-origin delete (DELETE, a key given, no
\* marker) on a Child changes no Store and starts no fan-out, and answers
\* with a redirect to the current parentNode, or with the failure when
\* parentNode is empty.
C2_ChildTurnsAway ==
    [][\A n \in Children :
         /\ \A b \in KVBodies : ClientPut(n, b) => TurnedAway(n)
         /\ \A k \in Keys : ClientDelete(n, "DELETE", k, FALSE) => TurnedAway(n)]_vars

C2_Witness ==
    /\ last.op = "put" /\ last.node \in Children /\ last.from = "client"
    /\ last.status = "TemporaryRedirect" /\ last.loc = parentNode[last.node]
    /\ data[last.node] # EmptyMap

NoNewSend == \A x \in BagToSet(msgs') : CopiesIn(x, msgs') <= CopiesIn(x, msgs)

\* C3: a delete with the replication marker that reaches a Child, from a
\* fan-out goroutine or from anyone else, removes the key from that Child's
\* Store and is acknowledged OK, with no redirect and no message sent,
\* whatever the Child's parentNode is.
C3_LoopBreaking ==
    [][\A n \in Children, k \in Keys :
         (\/ ClientDelete(n, "DELETE", k, TRUE)
          \/ \E m \in Msgs : m.to = n /\ QueryKey(m.key) = k /\ deletionSent(m))
           => /\ data'[n] = Del(data[n], k)
              /\ \A o \in Nodes \ {n} : data'[o] = data[o]
              /\ last'.status = "OK" /\ last'.loc = ""
              /\ NoNewSend]_vars

C3_Witness ==
    /\ last.op = "delete" /\ last.marker /\ last.node \in Children
    /\ last.from = parentNode[last.node]
    /\ last.status = "OK" /\ last.key \notin DOMAIN data[last.node]
    /\ data[last.node] # EmptyMap

\* C4: a put(k, v) that a Root accepts is answered OK, and a get(k) on that
\* Root that follows it at once returns v.
C4_PutThenGet ==
    [][\A n \in Roots, k \in Keys :
         /\ \A v \in Values :
              ClientPut(n, [kind |-> "ok", key |-> k, value |-> v])
                => last'.status = "OK"
         /\ (/\ last.op = "put" /\ last.node = n /\ last.key = k
             /\ last.status = "OK"
             /\ ClientGet(n, k))
              => (last'.status = "OK" /\ last'.val = last.val)]_vars

C4_Witness ==
    /\ last.op = "get" /\ last.node \in Roots /\ last.status = "OK"
    /\ last.val = "v2" /\ nreq = 2

\* C5: the snapshot a parent serves is its Store at that moment, and a
\* setParent that ends in success leaves the Child's Store equal to the
\* snapshot that was served: same keys, same values, nothing else.
C5_JoinSnapshot ==
    [][\A n \in Children :
         /\ synchronizeFetch(n) => join'[n].snap = data[parentNode[n]]
         /\ (/\ join[n].pc # "idle" /\ join'[n].pc = "idle"
             /\ last'.op = "setParent" /\ last'.node = n /\ last'.status = "OK")
              => (join[n].pc = "apply" /\ data'[n] = join[n].snap)]_vars

C5_Witness ==
    /\ last.op = "setParent" /\ last.status = "OK" /\ last.val = "r2"
    /\ data[last.node] = data["r2"] /\ data[last.node] # EmptyMap

\* C6: a delete(k) on a Root is answered OK and leaves k absent and every
\* other entry as it was, also when k was absent before (the Store is then
\* unchanged); a get(k) that follows it at once returns not-found, and a
\* second delete(k) is answered OK and changes nothing.
C6_DeleteIdempotent ==
    [][\A n \in Roots, k \in Keys, mk \in BOOLEAN :
         /\ ClientDelete(n, "DELETE", k, mk)
              => /\ last'.status = "OK"
                 /\ data'[n] = Del(data[n], k)
                 /\ (k \notin DOMAIN data[n] => data'[n] = data[n])
         /\ (/\ last.op = "delete" /\ last.node = n /\ last.key = k
             /\ last.status = "OK")
              => /\ ClientGet(n, k) => last'.status = "NotFound"
                 /\ ClientDelete(n, "DELETE", k, mk)
                      => (last'.status = "OK" /\ data'[n] = data[n])]_vars

C6_Witness ==
    /\ last.op = "delete" /\ last.node \in Roots /\ last.status = "OK"
    /\ nreq = 2 /\ data[last.node] = EmptyMap
    /\ \E m \in Msgs : m.kind = "set" /\ m.from = last.node /\ m.key = last.key

\* C8 (as claimed): a send to /replicate that fails leaves the Root running
\* with its Store as it was, and the other sends still pending.
C8_SetFanOutFailure ==
    [][\A m \in Msgs :
         replicateFailed(m)
           => /\ status'[m.from] = "up"
              /\ data'[m.from] = data[m.from]
              /\ msgs' = Take(m)]_vars

\* C9: a delete send that fails changes nothing but the end of that one
\* goroutine: the Root runs on, every Store is as it was, the response the
\* client got stands and the other sends stay pending; a send that a child
\* answers with a status other than OK leaves the Root and every Store as they
\* were too; and the response to a delete on a Root is OK whatever becomes of
\* the sends.
C9_DeleteFanOutFailure ==
    [][/\ \A m \in Msgs :
            deletionFailed(m)
              => /\ status' = status /\ data' = data /\ last' = last
                 /\ msgs' = Take(m)
       /\ \A m \in Msgs :
            (deletionSent(m) /\ last'.status # "OK")
              => /\ status' = status /\ data' = data
                 /\ msgs' = Take(m)
       /\ \A n \in Roots, k \in Keys :
            ClientDelete(n, "DELETE", k, FALSE)
              => /\ last'.status = "OK"
                 /\ BagCardinality(msgs') = BagCardinality(msgs) + Len(childNodes[n])]_vars

C9_Witness ==
    /\ last.op = "delete" /\ last.from = "client" /\ last.status = "OK"
    /\ Up(last.node) /\ Len(childNodes[last.node]) = 2
    /\ BagCardinality(msgs) = 1
    /\ last.key \notin DOMAIN data[last.node]

\* a replication-accepting request handled by Child n in this step, sent by
\* a peer that is not n's current parent
FromNonParent(n) ==
    \/ \E b \in KVBodies : ClientReplicate(n, b)
    \/ \E k \in Keys : ClientDelete(n, "DELETE", k, TRUE)
    \/ \E m \in Msgs : /\ m.to = n /\ m.from # parentNode[n]
                       /\ (replicateSent(m) \/ deletionSent(m))

\* C10 (as claimed): a replicateSet or a marked delete from a peer that is
\* not the Child's current parent never changes the Child's Store.
C10_RejectsNonParent ==
    [][\A n \in Children : FromNonParent(n) => data'[n] = data[n]]_vars

\* C10 (amended): a Child applies a well-formed replicateSet and a marked
\* delete with a key whoever sent it; /replicate is refused only by a Root or
\* for a body that does not decode to a key and a value, a marked delete only
\* when the key it is read with is empty.
C10_AppliesFromAnyPeer ==
    [][\A n \in Children :
         /\ \A b \in KVBodies :
              ClientReplicate(n, b)
                => IF b.kind = "ok"
                   THEN /\ data'[n] = Set(data[n], b.key, b.value)
                        /\ last'.status = "OK"
                   ELSE data'[n] = data[n] /\ last'.status = "BadRequest"
         /\ \A m \in Msgs :
              (m.to = n /\ m.from # parentNode[n] /\ replicateSent(m))
                => (data'[n] = Set(data[n], m.key, m.value) /\ last'.status = "OK")
         /\ \A m \in Msgs :
              (m.to = n /\ m.from # parentNode[n] /\ deletionSent(m))
                => IF QueryKey(m.key) # NoKey
                   THEN /\ data'[n] = Del(data[n], QueryKey(m.key))
                        /\ last'.status = "OK"
                   ELSE data'[n] = data[n] /\ last'.status = "BadRequest"]_vars

C10_Witness ==
    /\ last.op = "replicate" /\ last.node \in Children
    /\ last.from \in Roots /\ last.from # parentNode[last.node]
    /\ last.status = "OK"
    /\ last.key \in DOMAIN data[last.node] /\ data[last.node][last.key] = last.val

\* C11: when a setParent on a running Child has registered and the fetch of
\* the snapshot then fails, the call answers with a failure, never OK; the
\* failing step and the answer change no Store and no children list, the
\* Child's address stays in the children of the new parent (while that parent
\* runs), and no step of the call before the failure touched the Child's Store.
C11_PartialJoinFailure ==
    [][\A n \in Children : Up(n) =>
         /\ synchronizeFailed(n)
              => /\ join'[n].pc = "fail"
                 /\ data' = data /\ childNodes' = childNodes
                 /\ Up(parentNode[n]) => n \in ChildrenOf(parentNode[n])
         /\ (\E b \in ParentBodies : SetParentNode(n, b)) => data' = data
         /\ registerWithParent(n) => data' = data
         /\ joinFailed(n)
              => /\ last'.op = "setParent" /\ last'.node = n
                 /\ last'.status = "InternalServerError"
                 /\ data' = data /\ childNodes' = childNodes]_vars

C11_Witness ==
    /\ last.op = "setParent" /\ last.status = "InternalServerError"
    /\ last.val = "r2" /\ Up("r2") /\ last.node \in ChildrenOf("r2")
    /\ parentNode[last.node] = "r2" /\ data[last.node] # EmptyMap

IsPrefix(p, q) == Len(p) <= Len(q) /\ SubSeq(q, 1, Len(p)) = p

\* C12: addChild with an address on a Root appends it at the end, present
\* already or not, and is answered OK; addChild on a Child is rejected and
\* changes no list; and over every step the children of a node that keeps
\* running keep every entry at its position (the old list is a prefix of the
\* new one).
C12_ChildrenAppendOnly ==
    [][/\ \A n \in Roots, b \in ChildBodies :
            (ClientAddChild(n, b) /\ b.kind = "ok" /\ b.addr # "")
              => /\ childNodes'[n] = Append(childNodes[n], b.addr)
                 /\ last'.status = "OK"
       /\ \A n \in Children, b \in ChildBodies :
            ClientAddChild(n, b)
              => (childNodes' = childNodes /\ last'.status = "BadRequest")
       /\ \A n \in Nodes :
            (status[n] # "dead" /\ status'[n] # "dead")
              => IsPrefix(childNodes[n], childNodes'[n])]_vars

C12_Witness ==
    /\ last.op = "addChild" /\ last.status = "OK" /\ last.node \in Roots
    /\ Len(childNodes[last.node]) = 2
    /\ childNodes[last.node][1] = childNodes[last.node][2]

\* C13: a /replicate request on a Root is refused, changes no Store and sends
\* nothing; a put or a delete on a Root is never answered with a redirect,
\* also when the Root was constructed with a parentNode.
C13_RootRejectsReplicate ==
    [][\A n \in Roots :
         /\ \A b \in KVBodies :
              ClientReplicate(n, b)
                => /\ last'.status = "BadRequest"
                   /\ data' = data /\ msgs' = msgs
         /\ (nreq' # nreq /\ last'.node = n /\ last'.op \in {"put", "delete"})
              => /\ last'.status \in {"OK", "BadRequest", "MethodNotAllowed"}
                 /\ last'.loc = ""]_vars

C13_Witness ==
    /\ last.op = "replicate" /\ last.node \in Roots /\ last.key # NoKey
    /\ last.status = "BadRequest" /\ parentNode[last.node] # ""
    /\ data[last.node] # EmptyMap /\ last.key \notin DOMAIN data[last.node]

\* C14: a get with a key, on a Root or a Child, answers from the node's own
\* Store: the value held, or not-found when the key is absent; it is never a
\* redirect, and it changes no Store, no topology field and sends nothing.
C14_GetLocal ==
    [][\A n \in Nodes, k \in Keys :
         ClientGet(n, k)
           => /\ UNCHANGED <<status, data, childNodes, parentNode, msgs, join>>
              /\ last'.loc = ""
              /\ IF k \in DOMAIN data[n]
                 THEN last'.status = "OK" /\ last'.val = data[n][k]
                 ELSE last'.status = "NotFound"]_vars

C14_Witness ==
    /\ last.op = "get" /\ last.node \in Children /\ last.status = "OK"
    /\ parentNode[last.node] # "" /\ data[last.node][last.key] = last.val

\* C15 (as claimed): a node that serves requests is never ended by an error
\* at runtime.
C15_NoRuntimeFatal ==
    [][\A n \in Nodes : Up(n) => status'[n] = "up"]_vars

\* C16 (as claimed): a put or delete applied on a Root starts one send per
\* entry of its children and is answered OK at once, and each of these sends
\* is attempted once: a step ends at most the one send it attempts, and only
\* a put or delete on a Root adds sends.
C16_AtMostOnce ==
    [][/\ \A n \in Roots, b \in KVBodies :
            (ClientPut(n, b) /\ b.kind = "ok")
              => /\ msgs' = msgs (+) FanOut(n, "set", b.key, b.value)
                 /\ last'.status = "OK"
       /\ \A n \in Roots, k \in Keys :
            ClientDelete(n, "DELETE", k, FALSE)
              => /\ msgs' = msgs (+) FanOut(n, "del", k, "")
                 /\ last'.status = "OK"
       /\ BagCardinality(msgs') >= BagCardinality(msgs) - 1
       /\ nreq' = nreq => NoNewSend]_vars

\* C17: when the registration of a setParent on a running Child fails (no
\* answer from the target, or the target refuses addChild as a Child does),
\* the join goes to its failure path with no Store and no children list
\* changed, the failure path never fetches a snapshot, and the call is
\* answered with a failure.
C17_RegistrationFailure ==
    [][\A n \in Children : Up(n) =>
         /\ registerFailed(n)
              => /\ join'[n].pc = "fail"
                 /\ data' = data /\ childNodes' = childNodes
         /\ (registerWithParent(n) /\ last'.status # "OK")
              => /\ join'[n].pc = "fail"
                 /\ data' = data /\ childNodes' = childNodes
         /\ (join[n].pc = "fail" /\ join'[n] # join[n])
              => /\ join'[n].pc = "idle"
                 /\ last'.op = "setParent" /\ last'.node = n
                 /\ last'.status = "InternalServerError"
                 /\ data'[n] = data[n]]_vars

C17_Witness ==
    /\ last.op = "setParent" /\ last.status = "InternalServerError"
    /\ last.val \in Children /\ Up(last.val)
    /\ \A o \in Nodes : last.node \notin ChildrenOf(o) \/ o = "r1"
    /\ data[last.node] # EmptyMap

\* C18: a Child that applies a replicated set or a marked delete starts no
\* send, also when it was constructed with a children list; and every send
\* there ever is was started by a Root.
C18_ChildNeverFansOut ==
    [][/\ \A n \in Children :
            (\/ \E b \in KVBodies : ClientReplicate(n, b)
             \/ \E k \in Keys : ClientDelete(n, "DELETE", k, TRUE)
             \/ \E m \in Msgs : m.to = n /\ (replicateSent(m) \/ deletionSent(m)))
              => NoNewSend
       /\ \A m \in BagToSet(msgs') : m.from \in Roots]_vars

C18_Witness ==
    /\ last.op = "delete" /\ last.marker /\ last.status = "OK"
    /\ last.node \in Children /\ childNodes[last.node] # << >>
    /\ last.from \in Roots /\ msgs = EmptyBag

Topology == {"parentNode", "childNodes"}

\* the goroutine holds its node's mutex, as the writer or as a reader
Holds(t) ==
    /\ thr[t].node # ""
    /\ mu[thr[t].node].w = t \/ t \in mu[thr[t].node].r

\* C19 (as claimed): a goroutine that writes parentNode or childNodes holds
\* the exclusive lock, and no goroutine of the same process reads or writes
\* that field at the same time.
C19_TopologyGuarded ==
    \A t \in Threads :
      Writes(t) \in Topology
        => /\ mu[thr[t].node].w = t
           /\ \A u \in Threads : ~Race(t, u)

\* C20 (as claimed): a goroutine that starts the fan-out, calls a peer or
\* writes a response to its peer holds no lock.
C20_NoSendUnderLock ==
    \A t \in Threads :
      thr[t].pc \in {"fanout", "register", "fetch", "respond", "send"} => ~Holds(t)

\* C21 (as claimed): over a network that delivers, once a Child's setParent
\* to a running Root has completed and no fan-out is in flight, the Child
\* answers every key as that Root does.
C21_JoinUnderWrites ==
    \A c \in Children :
      (/\ Up(c) /\ join[c].pc = "idle" /\ Quiet
       /\ Up(parentNode[c]) /\ c \in ChildrenOf(parentNode[c]))
        => \A k \in Keys : Get(c, k) = Get(parentNode[c], k)

\* the node a client is sent to by the redirect of a put on n, "" when the
\* answer is no redirect
NextHop(n) ==
    LET r == Put(n, [kind |-> "ok", key |-> <<"k">>, value |-> "v1"])
    IN  IF r.status = "TemporaryRedirect" THEN r.loc ELSE ""

\* following redirects from n ends within hops more requests: at a Root, at
\* a Child with no parent, or at an address where no node answers
RECURSIVE EndsWithin(_, _)
EndsWithin(n, hops) ==
    IF ~Up(n) \/ NextHop(n) = "" THEN TRUE
    ELSE IF hops = 0 THEN FALSE
    ELSE EndsWithin(NextHop(n), hops - 1)

\* C22 (as claimed): from every running Child the redirects of put lead, in
\* no more hops than there are nodes, to a node that does not redirect.
C22_RedirectsTerminate ==
    \A n \in Children : Up(n) => EndsWithin(n, Cardinality(Nodes))

\* C23: a setParent with an address on a running Child writes parentNode
\* before anything else of the join; no later step of the join, failed or
\* not, writes it again; and the put or unmarked delete that follows a failed
\* setParent, no other setParent having begun on the node since, is
\* redirected to the address that was requested.
C23_ParentNotRestored ==
    [][\A n \in Children : Up(n) =>
         /\ \A b \in ParentBodies :
              (SetParentNode(n, b) /\ b.kind = "ok" /\ b.addr # "")
                => (parentNode'[n] = b.addr /\ join'[n].pc = "register")
         /\ (join[n].pc # "idle" /\ join'[n] # join[n])
              => parentNode'[n] = parentNode[n]
         /\ (/\ last.op = "setParent" /\ last.node = n
             /\ last.status = "InternalServerError" /\ join[n].pc = "idle"
             /\ nreq' # nreq /\ last'.op \in {"put", "delete"} /\ last'.node = n
             /\ ~last'.marker
             /\ last'.status \notin {"BadRequest", "MethodNotAllowed"})
              => (last'.status = "TemporaryRedirect" /\ last'.loc = last.val)]_vars

C23_Witness ==
    /\ last.op = "put" /\ last.node \in Children
    /\ last.status = "TemporaryRedirect" /\ last.loc = "r2"
    /\ Up("r2") /\ last.node \notin ChildrenOf("r2")
    /\ join[last.node].pc = "idle"

=============================================================================
